---- MODULE Spec2Model ----
(***************************************************************************)
(* PairingBatcher (src/src/lib.rs): batches pairing equations into one     *)
(* multi-pairing check, keyed by their G2 component.                       *)
(*                                                                         *)
(* Group elements are modelled by their discrete logarithms: a G1 or G2    *)
(* point is an exponent in the ring Z_P, group addition is addition mod P, *)
(* scalar multiplication is multiplication mod P, and the pairing is       *)
(* e(x, y) = x * y mod P, so the target group's identity is 0.             *)
(***************************************************************************)
EXTENDS Integers, Sequences, FiniteSets

\* ------------------------------------------------------------------ bounds
P == 3          \* size of the scalar ring / of the groups
MaxPairs == 2   \* longest equation handed to add_pairing
MaxCalls == 3   \* add_pairing calls per batcher
MaxTerms == 4   \* pairs handed to add_pairing over a batcher's lifetime (SpecFold)
MaxTermsFinalize == 2   \* the same, where finalize calls are interleaved (Spec)
MaxFinalize == 3        \* finalize calls per batcher

\* ----------------------------------------------------- the pairing engine
ScalarField == 0 .. (P - 1)
G1 == ScalarField
G2 == ScalarField

Add(x, y) == (x + y) % P
Mul(x, y) == (x * y) % P
One == 1 % P

\* Affine -> projective conversion. A projective point compares and hashes as
\* the point it represents, so it is modelled by the same exponent.
G1Projective(g1) == g1
G2Projective(g2) == g2

\* Conversion into the Miller-loop input form.
G1Prepared(g1) == <<"G1Prepared", g1>>
G2Prepared(g2) == <<"G2Prepared", g2>>

RECURSIVE multi_miller_loop(_, _)
\* Product of the pairings of the zipped (G1, G2) prepared pairs, followed by
\* the final exponentiation; 0 is the target group's identity.
multi_miller_loop(a, b) ==
    IF a = <<>> \/ b = <<>> THEN 0
    ELSE Add(Mul(Head(a)[2], Head(b)[2]), multi_miller_loop(Tail(a), Tail(b)))

\* --------------------------------------------------------------- the inputs
Pair == G1 \X G2
Equations == UNION {[1 .. n -> Pair] : n \in 0 .. MaxPairs}

Perms(S) == {s \in [1 .. Cardinality(S) -> S] :
                \A i, j \in 1 .. Cardinality(S) : s[i] = s[j] => i = j}

\* ---------------------------------------------------------------- the state
VARIABLES
    g2_to_g1,           \* the accumulator map: a function from its keys to G1
    iter_order,         \* the keys in the hash table's iteration order
    challenge,
    running_challenge,
    ret,                \* what the most recent call returned
    eqs,                \* history: the equations handed to add_pairing so far
    calls               \* history: the names of the calls made so far

vars == <<g2_to_g1, iter_order, challenge, running_challenge, ret, eqs, calls>>

Unit == <<>>
EmptyMap == [k \in {} |-> 0]

\* ------------------------------------------------------------ PairingBatcher
new(c) == [g2_to_g1 |-> EmptyMap, challenge |-> c, running_challenge |-> One]

g2_points(pairs) == [i \in 1 .. Len(pairs) |-> G2Projective(pairs[i][2])]

\* A G2 value repeated inside the equation counts as present too.
is_present_or_repeated(m, g2s) ==
    \/ \E i \in 1 .. Len(g2s) : g2s[i] \in DOMAIN m
    \/ \E i, j \in 1 .. Len(g2s) : i # j /\ g2s[i] = g2s[j]

is_present(m, g2s) == \E i \in 1 .. Len(g2s) : g2s[i] \in DOMAIN m

\* The challenge is added to the running challenge instead of multiplied in.
advance_add(running, c) == Add(running, c)

advance(running, c) == Mul(running, c)

\* A zero coefficient is skipped: the terms are folded as they are.
scaled_unless_zero(pairs, running) ==
    [i \in 1 .. Len(pairs) |->
        IF running = 0 THEN pairs[i][1] ELSE Mul(pairs[i][1], running)]

scaled(pairs, running) == [i \in 1 .. Len(pairs) |-> Mul(pairs[i][1], running)]

unscaled(pairs) == [i \in 1 .. Len(pairs) |-> G1Projective(pairs[i][1])]

\* and_modify overwrites the stored point instead of adding to it.
entry_overwrite(m, g2, g1) ==
    [k \in DOMAIN m \cup {g2} |-> IF k = g2 THEN g1 ELSE m[k]]

entry(m, g2, g1) ==
    IF g2 \in DOMAIN m
        THEN [m EXCEPT ![g2] = Add(@, g1)]
        ELSE [k \in DOMAIN m \cup {g2} |-> IF k = g2 THEN g1 ELSE m[k]]

RECURSIVE update_mapping(_, _, _)
update_mapping(m, g2s, g1s) ==
    IF g2s = <<>> \/ g1s = <<>> THEN m
    ELSE update_mapping(entry(m, Head(g2s), Head(g1s)), Tail(g2s), Tail(g1s))

\* Only the terms whose G2 value is already a key are scaled.
add_pairing_scale_colliding(b, pairs) ==
    LET g2s == g2_points(pairs)
        present == is_present(b.g2_to_g1, g2s)
        running == IF present THEN advance(b.running_challenge, b.challenge)
                   ELSE b.running_challenge
        g1s == [i \in 1 .. Len(pairs) |->
                   IF g2s[i] \in DOMAIN b.g2_to_g1
                       THEN Mul(pairs[i][1], running) ELSE pairs[i][1]]
    IN  [g2_to_g1 |-> update_mapping(b.g2_to_g1, g2s, g1s),
         challenge |-> b.challenge,
         running_challenge |-> running]

\* The terms are scaled before the running challenge is advanced.
add_pairing_scale_first(b, pairs) ==
    LET g2s == g2_points(pairs)
        present == is_present(b.g2_to_g1, g2s)
        running == IF present THEN advance(b.running_challenge, b.challenge)
                   ELSE b.running_challenge
        g1s == IF present THEN scaled(pairs, b.running_challenge)
               ELSE unscaled(pairs)
    IN  [g2_to_g1 |-> update_mapping(b.g2_to_g1, g2s, g1s),
         challenge |-> b.challenge,
         running_challenge |-> running]

add_pairing(b, pairs) ==
    LET g2s == g2_points(pairs)
        present == is_present(b.g2_to_g1, g2s)
        running == IF present THEN advance(b.running_challenge, b.challenge)
                   ELSE b.running_challenge
        g1s == IF present THEN scaled(pairs, running) ELSE unscaled(pairs)
    IN  [g2_to_g1 |-> update_mapping(b.g2_to_g1, g2s, g1s),
         challenge |-> b.challenge,
         running_challenge |-> running]

\* The G2 points are pushed at the front, the G1 points at the back.
finalize_misaligned(m, order) ==
    <<[k \in 1 .. Len(order) |-> G1Prepared(m[order[k]])],
      [k \in 1 .. Len(order) |-> G2Prepared(order[Len(order) + 1 - k])]>>

finalize(m, order) ==
    <<[k \in 1 .. Len(order) |-> G1Prepared(m[order[k]])],
      [k \in 1 .. Len(order) |-> G2Prepared(order[k])]>>

\* ------------------------------------------------------------ specification
Self == [g2_to_g1 |-> g2_to_g1, challenge |-> challenge,
         running_challenge |-> running_challenge]

RECURSIVE TotalTerms(_)
TotalTerms(es) == IF es = <<>> THEN 0 ELSE Len(Head(es)) + TotalTerms(Tail(es))

Init ==
    /\ \E c \in ScalarField :
           /\ g2_to_g1 = new(c).g2_to_g1
           /\ challenge = new(c).challenge
           /\ running_challenge = new(c).running_challenge
    /\ iter_order = <<>>
    /\ ret = Unit
    /\ eqs = <<>>
    /\ calls = <<>>

\* One add_pairing call. Inserting a key may rehash the table, which leaves
\* the keys in any order; a call that inserts none moves none.
AddPairing(pairs) ==
    /\ LET b == add_pairing(Self, pairs)
       IN  /\ g2_to_g1' = b.g2_to_g1
           /\ challenge' = b.challenge
           /\ running_challenge' = b.running_challenge
           /\ IF DOMAIN b.g2_to_g1 = DOMAIN g2_to_g1
                 THEN iter_order' = iter_order
                 ELSE iter_order' \in Perms(DOMAIN b.g2_to_g1)
    /\ ret' = Unit
    /\ eqs' = Append(eqs, pairs)
    /\ calls' = Append(calls, "add_pairing")

\* finalize drains the map it reads.
Finalize_drain ==
    /\ ret' = finalize(g2_to_g1, iter_order)
    /\ calls' = Append(calls, "finalize")
    /\ g2_to_g1' = EmptyMap
    /\ iter_order' = <<>>
    /\ UNCHANGED <<challenge, running_challenge, eqs>>

\* finalize takes &self: it reads the map and writes nothing.
Finalize ==
    /\ ret' = finalize(g2_to_g1, iter_order)
    /\ calls' = Append(calls, "finalize")
    /\ UNCHANGED <<g2_to_g1, iter_order, challenge, running_challenge, eqs>>

Within(pairs, maxTerms) ==
    /\ Len(eqs) < MaxCalls
    /\ TotalTerms(eqs) + Len(pairs) <= maxTerms

\* Any interleaving of add_pairing and finalize calls.
Next ==
    \/ \E pairs \in Equations : Within(pairs, MaxTermsFinalize) /\ AddPairing(pairs)
    \/ Len(calls) - Len(eqs) < MaxFinalize /\ Finalize

Spec == Init /\ [][Next]_vars

\* add_pairing calls alone, over longer histories.
NextFold == \E pairs \in Equations : Within(pairs, MaxTerms) /\ AddPairing(pairs)

SpecFold == Init /\ [][NextFold]_vars

\* A sequence of add_pairing calls on a batcher.
RECURSIVE Fold(_, _)
Fold(b, es) == IF es = <<>> THEN b ELSE Fold(add_pairing(b, Head(es)), Tail(es))

\* ------------------------------------------------- what the claims speak of
\* The unbatched check of one equation: the pairing product of its terms.
Holds(pairs) ==
    multi_miller_loop([i \in 1 .. Len(pairs) |-> G1Prepared(pairs[i][1])],
                      [i \in 1 .. Len(pairs) |-> G2Prepared(pairs[i][2])]) = 0

\* The batched check on what finalize returns.
BatchedPasses(m, order) ==
    LET out == finalize(m, order) IN multi_miller_loop(out[1], out[2]) = 0

\* The G2 values of an equation, and those of the equations before the i-th.
G2Set(pairs) == {pairs[i][2] : i \in 1 .. Len(pairs)}
SeenBefore(i) == UNION {G2Set(eqs[j]) : j \in 1 .. (i - 1)}
Seen == SeenBefore(Len(eqs) + 1)

\* The i-th call met a G2 value submitted by an earlier call.
Collides(i) == G2Set(eqs[i]) \cap SeenBefore(i) # {}
NumCollisions(i) == Cardinality({j \in 1 .. i : Collides(j)})

RECURSIVE Pow(_, _)
Pow(x, n) == IF n = 0 THEN One ELSE Mul(x, Pow(x, n - 1))

\* The coefficient the i-th equation is folded with.
Coeff(i) == IF Collides(i) THEN Pow(challenge, NumCollisions(i)) ELSE One

RECURSIVE SumG1(_, _)
\* The sum of the G1 values an equation submits with the G2 value g2.
SumG1(pairs, g2) ==
    IF pairs = <<>> THEN 0
    ELSE Add(IF Head(pairs)[2] = g2 THEN Head(pairs)[1] ELSE 0,
             SumG1(Tail(pairs), g2))

RECURSIVE SumOver(_, _, _)
\* Sum over the equations 1 .. i of coefficient * (G1 sum for g2); the
\* coefficient of equation j is Coeff(j) when scaledSum, and 1 otherwise.
SumOver(i, g2, scaledSum) ==
    IF i = 0 THEN 0
    ELSE Add(Mul(IF scaledSum THEN Coeff(i) ELSE One, SumG1(eqs[i], g2)),
             SumOver(i - 1, g2, scaledSum))

\* The value of a map at a G2 value, the G1 identity where it has no entry.
At(m, g2) == IF g2 \in DOMAIN m THEN m[g2] ELSE 0

\* Some term of the equation has a non-trivial pairing.
NonTrivial(pairs) == \E i \in 1 .. Len(pairs) : Mul(pairs[i][1], pairs[i][2]) # 0

\* ------------------------------------------------------------------- claims

\* C1: completeness. When every submitted equation holds on its own, the
\* pairing product over the pairs finalize returns is the identity.
C1_Completeness ==
    (\A i \in 1 .. Len(eqs) : Holds(eqs[i])) => BatchedPasses(g2_to_g1, iter_order)

\* Two non-trivial equations that hold, the second one colliding with the
\* first and scaled by a challenge other than 0 and 1, over two map entries.
C1_Witness ==
    /\ Len(eqs) = 2
    /\ \A i \in 1 .. 2 : Holds(eqs[i]) /\ NonTrivial(eqs[i])
    /\ Collides(2)
    /\ challenge \notin {0, One}
    /\ Cardinality(DOMAIN g2_to_g1) = 2
    /\ \A k \in DOMAIN g2_to_g1 : g2_to_g1[k] # 0

\* The batched check of the equations submitted so far, had the batcher been
\* constructed with the challenge r.
PassesWith(r) ==
    LET b == Fold(new(r), eqs)
    IN  BatchedPasses(b.g2_to_g1, CHOOSE o \in Perms(DOMAIN b.g2_to_g1) : TRUE)

\* C2: soundness. When some submitted equation does not hold, the batched
\* check passes for at most n of the challenge values, n the number of
\* equations, and fails for some nonzero challenge.
C2_Soundness ==
    (\E i \in 1 .. Len(eqs) : ~Holds(eqs[i])) =>
        /\ Cardinality({r \in ScalarField : PassesWith(r)}) <= Len(eqs)
        /\ \E r \in ScalarField \ {0} : ~PassesWith(r)

\* The equation of the add_pairing call a step makes, and whether the call
\* found one of its G2 values among the map's keys.
Called == eqs' # eqs
Arg == eqs'[Len(eqs')]
Detected == G2Set(Arg) \cap DOMAIN g2_to_g1 # {}

\* The step folds every term of its equation with the coefficient c.
FoldedWith(c) ==
    /\ DOMAIN g2_to_g1' = DOMAIN g2_to_g1 \cup G2Set(Arg)
    /\ \A k \in G2 :
           At(g2_to_g1', k) = Add(At(g2_to_g1, k), Mul(c, SumG1(Arg, k)))

\* C3: collision folding. A call whose equation has a G2 value that is already
\* a key multiplies the running coefficient by the challenge once, and adds
\* every G1 term, scaled by the new running coefficient, into the map.
C3_CollisionFolding ==
    [][Called /\ Detected =>
          /\ running_challenge' = Mul(running_challenge, challenge)
          /\ FoldedWith(running_challenge')]_vars

\* The second call collides in one term and brings a new G2 value in the
\* other, with nonzero G1 terms and a challenge other than 0 and 1.
C3_Witness ==
    /\ Len(eqs) = 2
    /\ Len(eqs[2]) = 2
    /\ Collides(2)
    /\ \E i \in 1 .. 2 : eqs[2][i][2] \notin SeenBefore(2)
    /\ \A i \in 1 .. 2 : eqs[2][i][1] # 0
    /\ challenge \notin {0, One}

PairwiseDisjoint ==
    \A i, j \in 1 .. Len(eqs) : i # j => G2Set(eqs[i]) \cap G2Set(eqs[j]) = {}

RECURSIVE DistinctG2Count(_)
DistinctG2Count(i) ==
    IF i = 0 THEN 0 ELSE Cardinality(G2Set(eqs[i])) + DistinctG2Count(i - 1)

\* C4: no-collision independence. After equations whose G2 values are pairwise
\* disjoint across equations, the running coefficient is 1, the map has one
\* entry per distinct G2 value of each equation, and each entry holds the
\* unscaled sum of the G1 terms submitted with its G2 value.
C4_NoCollisionIndependence ==
    PairwiseDisjoint =>
        /\ running_challenge = One
        /\ Cardinality(DOMAIN g2_to_g1) = DistinctG2Count(Len(eqs))
        /\ \A k \in DOMAIN g2_to_g1 : g2_to_g1[k] = SumOver(Len(eqs), k, FALSE)

\* Three non-empty equations over disjoint G2 values, one of them repeating
\* its G2 value, under a challenge other than 0 and 1.
C4_Witness ==
    /\ Len(eqs) = 3
    /\ PairwiseDisjoint
    /\ \A i \in 1 .. 3 : eqs[i] # <<>> /\ \A j \in 1 .. Len(eqs[i]) : eqs[i][j][1] # 0
    /\ \E i \in 1 .. 3 : Len(eqs[i]) = 2 /\ Cardinality(G2Set(eqs[i])) = 1
    /\ challenge \notin {0, One}

\* C5: finalize returns two sequences of one length, the number of distinct G2
\* values ever submitted; the k-th elements of both come from one map entry,
\* no entry is returned twice, and a fresh batcher yields two empty sequences.
C5_FinalizeShape ==
    /\ DOMAIN g2_to_g1 = Seen
    /\ ret # Unit =>
        /\ Len(ret[1]) = Len(ret[2])
        /\ Len(ret[1]) = Cardinality(Seen)
        /\ \A k \in 1 .. Len(ret[1]) :
               \E g2 \in DOMAIN g2_to_g1 :
                   /\ ret[2][k] = G2Prepared(g2)
                   /\ ret[1][k] = G1Prepared(g2_to_g1[g2])
        /\ \A j, k \in 1 .. Len(ret[2]) : ret[2][j] = ret[2][k] => j = k
        /\ eqs = <<>> => ret = <<(<<>>), (<<>>)>>

\* finalize has returned two entries that hold different G1 values.
C5_Witness ==
    /\ ret # Unit
    /\ Len(ret[1]) = 2
    /\ ret[1][1] # ret[1][2]

\* C6: an equation folded without a detected collision is combined with the
\* current running coefficient, and from the first call that detects a
\* collision on, every equation is scaled by a freshly advanced power of the
\* challenge (for a batcher constructed, as required, with a nonzero challenge).
C6_FreshPowerAfterCollision ==
    [][Called /\ challenge # 0 =>
          /\ ~Detected => FoldedWith(running_challenge)
          /\ (Detected \/ \E i \in 1 .. Len(eqs) : Collides(i)) =>
                 FoldedWith(Mul(running_challenge, challenge))]_vars

\* C7: finalize is read-only and idempotent. While no add_pairing follows it,
\* what finalize returned is what finalize returns again, and the batcher is
\* in the state its add_pairing calls alone lead to, whatever finalize calls
\* were made in between.
C7_FinalizeReadOnly ==
    /\ ret # Unit => ret = finalize(g2_to_g1, iter_order)
    /\ Self = Fold(new(challenge), eqs)

\* finalize between two add_pairing calls, then finalize twice in a row.
C7_Witness ==
    /\ calls = <<"add_pairing", "finalize", "add_pairing", "finalize", "finalize">>
    /\ eqs[1] # <<>>
    /\ Cardinality(DOMAIN g2_to_g1) = 2
    /\ \A k \in DOMAIN g2_to_g1 : g2_to_g1[k] # 0

\* C8: the challenge never changes, the running coefficient is challenge^c for
\* c the number of calls so far that met a G2 value already submitted, and a
\* call that meets none leaves the running coefficient as it is.
C8_RunningCoefficient ==
    /\ [](running_challenge = Pow(challenge, NumCollisions(Len(eqs))))
    /\ [][challenge' = challenge]_vars
    /\ [][Called /\ ~Detected => running_challenge' = running_challenge]_vars

\* Two calls out of three collided, under a challenge other than 0 and 1.
C8_Witness ==
    /\ Len(eqs) = 3
    /\ NumCollisions(3) = 2
    /\ challenge \notin {0, One}

\* C9: with the challenge 0, a call that detects a collision sets the running
\* coefficient to 0, leaves the values of the existing keys as they are and
\* inserts its new G2 values with the G1 identity, so the batched check comes
\* out as before the call.
C9_ZeroChallenge ==
    [][challenge = 0 /\ Called /\ Detected =>
          /\ running_challenge' = 0
          /\ \A k \in DOMAIN g2_to_g1 : g2_to_g1'[k] = g2_to_g1[k]
          /\ DOMAIN g2_to_g1' = DOMAIN g2_to_g1 \cup G2Set(Arg)
          /\ \A k \in DOMAIN g2_to_g1' \ DOMAIN g2_to_g1 : g2_to_g1'[k] = 0
          /\ BatchedPasses(g2_to_g1', iter_order')
                 = BatchedPasses(g2_to_g1, iter_order)]_vars

\* Under the challenge 0, an equation that does not hold has collided, with a
\* nonzero G1 term on an existing key and another on a new key.
C9_Witness ==
    /\ challenge = 0
    /\ Len(eqs) = 2
    /\ Len(eqs[2]) = 2
    /\ Collides(2)
    /\ ~Holds(eqs[2])
    /\ \A i \in 1 .. 2 : eqs[2][i][1] # 0
    /\ \E i \in 1 .. 2 : eqs[2][i][2] \notin SeenBefore(2)
    /\ running_challenge = 0

\* C10: the map's keys are the G2 values submitted, and each key holds the sum
\* over every equation i and every term (g1, g2) of it with that G2 value of
\* coeff_i * g1, coeff_i being 1 for an equation folded without a collision
\* and challenge^(collisions so far) for one folded with a collision.
C10_AccumulatorValue ==
    /\ DOMAIN g2_to_g1 = Seen
    /\ \A k \in DOMAIN g2_to_g1 : g2_to_g1[k] = SumOver(Len(eqs), k, TRUE)

\* Three equations folded with the coefficients 1, R and R^2 for a challenge R
\* other than 0 and 1, over more than one key.
C10_Witness ==
    /\ Len(eqs) = 3
    /\ ~Collides(1) /\ Collides(2) /\ Collides(3)
    /\ \A i \in 1 .. 3 : \E j \in 1 .. Len(eqs[i]) : eqs[i][j][1] # 0
    /\ Cardinality(DOMAIN g2_to_g1) >= 2
    /\ challenge \notin {0, One}

====
